---- MODULE Spec2Model ----
(***************************************************************************)
(* A model of the secretsage credential engine: the local vault store      *)
(* (src/sources/local/index.ts) over the age encryption provider           *)
(* (src/encryption/age.ts), the credential source registry                 *)
(* (src/sources/registry.ts), the credential service (core/service.ts):    *)
(* its lazy initialization over the local, global and custom vault         *)
(* directories, grant and revoke on the .env file and updateGitignore,     *)
(* and the init and revoke commands (src/commands).                        *)
(*                                                                         *)
(* JavaScript strings that the claims compare are records [fmt, to, body]: *)
(* fmt "plain" is an ordinary string, fmt "b64age" is the base64 text of   *)
(* an age ciphertext addressed to the key pair `to`.  Timestamps are       *)
(* records [ty, t]: ty "Date" is an in-memory Date object, ty "iso" the    *)
(* ISO string JSON.stringify writes for it.                                *)
(***************************************************************************)
EXTENDS Integers, Sequences, FiniteSets, TLC

\* ------------------------------------------------------------------ bounds
MaxClock == 2
MaxKeys == 2

Names == {"A", "B"}
Plain(s) == [fmt |-> "plain", to |-> 0, body |-> s]
\* a value is the sequence of its characters: the two values are  a  and  a"
Values == {Plain(<<"a">>), Plain(<<"a", "\"">>)}
NoKey == 0

\* ------------------------------------------------- encryption/age.ts
\* new TextEncoder().encode / decrypt(..., 'text'): string <-> bytes
Utf8Encode(s) == [fmt |-> "bytes", to |-> 0, body |-> s.body]
Utf8Decode(b) == [fmt |-> "plain", to |-> 0, body |-> b.body]

\* age.Encrypter.encrypt: the bytes sealed to one recipient
AgeSeal(bytes, recipient) == [fmt |-> "age", to |-> recipient, body |-> bytes.body]

uint8ArrayToBase64(bytes) ==
    [fmt |-> IF bytes.fmt = "age" THEN "b64age" ELSE "b64", to |-> bytes.to, body |-> bytes.body]

\* Buffer.from(s, 'base64'): text that is not the base64 of an age file
\* decodes to bytes that are no age file
base64ToUint8Array(s) ==
    [fmt |-> IF s.fmt = "b64age" THEN "age" ELSE "bytes", to |-> s.to, body |-> s.body]

\* generateKeyPair: identityToRecipient(identity); pair k is (k, k)
identityToRecipient(identity) == identity

EncryptLeak(plaintext, recipient) == plaintext

encrypt(plaintext, recipient) ==
    uint8ArrayToBase64(AgeSeal(Utf8Encode(plaintext), recipient))

Ok(v) == [ok |-> TRUE, val |-> v, err |-> "none"]
Err(e, dflt) == [ok |-> FALSE, val |-> dflt, err |-> e]

DecryptAnyKey(ciphertext, privateKey) ==
    LET bytes == base64ToUint8Array(ciphertext)
    IN  IF bytes.fmt = "age" THEN Ok(Utf8Decode(bytes)) ELSE Err("DecryptionFailed", Plain(""))

\* decrypt: age.Decrypter throws unless the file is sealed to the identity
decrypt(ciphertext, privateKey) ==
    LET bytes == base64ToUint8Array(ciphertext)
    IN  IF bytes.fmt = "age" /\ bytes.to = identityToRecipient(privateKey)
        THEN Ok(Utf8Decode(bytes))
        ELSE Err("DecryptionFailed", Plain(""))

\* loadIdentity / loadRecipient: the key line of the file; a key file is
\* modelled by the number of the pair it holds, NoKey when it does not exist
loadIdentity(file) == IF file = NoKey THEN Err("ENOENT", NoKey) ELSE Ok(file)
loadRecipient(file) == IF file = NoKey THEN Err("ENOENT", NoKey) ELSE Ok(file)

\* ------------------------------------------------- vault file content
Date(t) == [ty |-> "Date", t |-> t]
Iso(t) == [ty |-> "iso", t |-> t]

\* JSON.stringify of a metadata timestamp: Date.prototype.toJSON gives the
\* ISO string; a value read back from the file is already that string
ToJSON(d) == [ty |-> "iso", t |-> d.t]

File(kind, entries) == [kind |-> kind, entries |-> entries]
Absent == File("absent", <<>>)
Blank == File("blank", <<>>)
Garbage == File("garbage", <<>>)
NonArray == File("nonarray", <<>>)

JSONStringify(entries) ==
    [i \in 1..Len(entries) |->
        [name |-> entries[i].name,
         encryptedValue |-> entries[i].encryptedValue,
         metadata |-> [name |-> entries[i].metadata.name,
                       createdAt |-> ToJSON(entries[i].metadata.createdAt),
                       updatedAt |-> ToJSON(entries[i].metadata.updatedAt)]]]


\* ------------------------------------------------- sources/local/index.ts
VARIABLES identityFile, recipientFile, vaultFile, clock, keysMade

\* what the last completed operation was and what it returned, and the
\* same, in short, of the one before; the
\* number of completed operations modulo 2; `expected` is the name -> value
\* map that the sequence of completed set and delete calls describes
VARIABLES lastOp, prevOp, opSeq, expected

\* one invocation of the tool per process: where it is in the call it runs
\* (pc) and what the call holds in memory (loc); ret is, in short, the
\* last call of the process that returned
VARIABLES pc, loc, ret

storeVars == <<identityFile, recipientFile, vaultFile, clock, keysMade>>
procVars == <<pc, loc, ret>>

\* sources/registry.ts: the Map of registered sources in insertion order;
\* what each backend answers to isAvailable() and what it holds; the last
\* registry call and how it ended
VARIABLES sources, avail, held, regOp

regVars == <<sources, avail, held, regOp>>

\* core/service.ts: the .env file of the working directory, the backup
\* files by the timestamp in their name, and the last grant or revoke call
\* of the service with what it returned
VARIABLES envFile, backups, envOp

envVars == <<envFile, backups, envOp>>

\* core/service.ts over the three places a vault can be in: what each vault
\* directory holds on disk, the global and the local config.yaml,
\* the fields of the CredentialService object of this invocation, and the
\* last call on it with what it returned
VARIABLES disk, config, service, svcOp

svcVars == <<disk, config, service, svcOp>>

\* the .gitignore file of the working directory and the last
\* updateGitignore call with what it returned
VARIABLES gitignore, gitOp

gitVars == <<gitignore, gitOp>>
\* what the calls on the whole store (one step each) leave alone
outsideStore == <<procVars, regVars, envVars, svcVars, gitVars>>
\* what the I/O steps of a call leave alone
outsideIO == <<expected, regVars, envVars, svcVars, gitVars>>
\* what the registry leaves alone
outsideRegistry ==
    <<storeVars, procVars, lastOp, prevOp, opSeq, expected, envVars, svcVars, gitVars>>
obsVars == <<lastOp, prevOp, opSeq, expected>>

NullValue == [fmt |-> "null", to |-> 0, body |-> <<>>]
NoMeta == [name |-> "", createdAt |-> Iso(0), updatedAt |-> Iso(0)]
NullCred == [found |-> FALSE, name |-> "", value |-> NullValue, source |-> "", metadata |-> NoMeta]

\* readVault: a missing or blank file is the empty list; JSON.parse of text
\* that is not JSON throws into the catch block, which returns the empty
\* list; JSON that is not an array is returned as it is (arr = FALSE)
readVault(file) ==
    CASE file.kind = "absent" -> [arr |-> TRUE, entries |-> <<>>]
      [] file.kind = "blank" -> [arr |-> TRUE, entries |-> <<>>]
      [] file.kind = "json" -> [arr |-> TRUE, entries |-> file.entries]
      [] file.kind = "nonarray" -> [arr |-> FALSE, entries |-> <<>>]
      [] OTHER -> [arr |-> TRUE, entries |-> <<>>]

\* writeVault: the text fs.writeFile is given
writeVault(entries) == File("json", JSONStringify(entries))

\* entries.findIndex(e => e.name === name), 1-based; 0 when there is none
findIndex(entries, name) ==
    IF \E i \in 1..Len(entries) : entries[i].name = name
    THEN CHOOSE i \in 1..Len(entries) :
            /\ entries[i].name = name
            /\ \A j \in 1..(i - 1) : entries[j].name # name
    ELSE 0

newEntryRestamped(entries, name, encryptedValue, now) ==
    [name |-> name,
     encryptedValue |-> encryptedValue,
     metadata |-> [name |-> name, createdAt |-> Date(now), updatedAt |-> Date(now)]]

newEntry(entries, name, encryptedValue, now) ==
    LET existingIndex == findIndex(entries, name)
    IN  [name |-> name,
         encryptedValue |-> encryptedValue,
         metadata |-> [name |-> name,
                       createdAt |-> IF existingIndex > 0
                                     THEN entries[existingIndex].metadata.createdAt
                                     ELSE Date(now),
                       updatedAt |-> Date(now)]]

setEntriesPush(entries, name, encryptedValue, now) ==
    Append(entries, newEntry(entries, name, encryptedValue, now))

\* set, lines 121-140: replace the entry in place or push it
setEntries(entries, name, encryptedValue, now) ==
    LET existingIndex == findIndex(entries, name)
        e == newEntry(entries, name, encryptedValue, now)
    IN  IF existingIndex > 0
        THEN [entries EXCEPT ![existingIndex] = e]
        ELSE Append(entries, e)

spliceNothing(entries, index) == entries

\* delete, line 157: entries.splice(index, 1)
splice(entries, index) ==
    SubSeq(entries, 1, index - 1) \o SubSeq(entries, index + 1, Len(entries))

\* get: the credential, null, or the error thrown
getOutcome(vf, idf, name) ==
    LET rv == readVault(vf)
        i == findIndex(rv.entries, name)
        key == loadIdentity(idf)
        pt == decrypt(rv.entries[i].encryptedValue, key.val)
    IN  IF ~rv.arr THEN Err("TypeError", NullCred)
        ELSE IF i = 0 THEN Ok(NullCred)
        ELSE IF ~key.ok THEN Err(key.err, NullCred)
        ELSE IF ~pt.ok THEN Err(pt.err, NullCred)
        ELSE Ok([found |-> TRUE, name |-> rv.entries[i].name, value |-> pt.val,
                 source |-> "local", metadata |-> rv.entries[i].metadata])

\* list: entries.map(e => ({name: e.name, ...e.metadata}))
listOutcome(vf) ==
    LET rv == readVault(vf)
    IN  IF ~rv.arr THEN Err("TypeError", <<>>)
        ELSE Ok([i \in 1..Len(rv.entries) |->
                    [name |-> rv.entries[i].metadata.name,
                     createdAt |-> rv.entries[i].metadata.createdAt,
                     updatedAt |-> rv.entries[i].metadata.updatedAt]])

RECURSIVE getAllLoop(_, _, _)
\* getAll, lines 186-194: decrypt and push, entry after entry; an error
\* thrown by decrypt leaves the loop and the call
getAllLoop(entries, privateKey, credentials) ==
    IF entries = <<>> THEN Ok(credentials)
    ELSE LET value == decrypt(Head(entries).encryptedValue, privateKey)
         IN  IF ~value.ok THEN Err(value.err, <<>>)
             ELSE getAllLoop(Tail(entries), privateKey,
                             Append(credentials,
                                    [name |-> Head(entries).name, value |-> value.val,
                                     source |-> "local", metadata |-> Head(entries).metadata]))

\* getAll, lines 180-197: the credentials, or the error thrown
getAllOutcome(vf, idf) ==
    LET rv == readVault(vf)
        privateKey == loadIdentity(idf)
    IN  IF ~privateKey.ok THEN Err(privateKey.err, <<>>)
        ELSE IF ~rv.arr THEN Err("TypeError", <<>>)
        ELSE getAllLoop(rv.entries, privateKey.val, <<>>)

\* set up to its write: the entries to write, or the error thrown
setOutcome(vf, rcf, name, value, now) ==
    LET rv == readVault(vf)
        publicKey == loadRecipient(rcf)
    IN  IF ~publicKey.ok THEN Err(publicKey.err, <<>>)
        ELSE IF ~rv.arr THEN Err("TypeError", <<>>)
        ELSE Ok(setEntries(rv.entries, name, encrypt(value, publicKey.val), now))

\* entries.splice(-1, 1) removes the last entry
deleteOutcomeUnchecked(vf, name) ==
    LET rv == readVault(vf)
        index == findIndex(rv.entries, name)
    IN  IF ~rv.arr THEN Err("TypeError", [found |-> FALSE, entries |-> <<>>])
        ELSE Ok([found |-> TRUE,
                 entries |-> splice(rv.entries, IF index = 0 THEN Len(rv.entries) ELSE index)])

\* delete up to its write: found tells whether there is anything to write
deleteOutcome(vf, name) ==
    LET rv == readVault(vf)
        index == findIndex(rv.entries, name)
    IN  IF ~rv.arr THEN Err("TypeError", [found |-> FALSE, entries |-> <<>>])
        ELSE IF index = 0 THEN Ok([found |-> FALSE, entries |-> rv.entries])
        ELSE Ok([found |-> TRUE, entries |-> splice(rv.entries, index)])

Op(op, name, value, ok, err, flag, cred, list) ==
    [op |-> op, name |-> name, value |-> value, ok |-> ok, err |-> err,
     flag |-> flag, cred |-> cred, list |-> list, at |-> clock]
NoOp == [op |-> "none", name |-> "", value |-> NullValue, ok |-> TRUE, err |-> "none",
         flag |-> FALSE, cred |-> NullCred, list |-> <<>>, at |-> 0]

Short(o) == [op |-> o.op, name |-> o.name, ok |-> o.ok, flag |-> o.flag]

BaseInit ==
    /\ identityFile = NoKey
    /\ recipientFile = NoKey
    /\ vaultFile = Absent
    /\ clock = 0
    /\ keysMade = 0
    /\ lastOp = NoOp
    /\ prevOp = Short(NoOp)
    /\ opSeq = 0
    /\ expected = [n \in Names |-> NullValue]

SourceIds == {"s1", "s2"}
NoSource == "none"
NullCredential == [found |-> FALSE, name |-> "", value |-> NullValue, source |-> NoSource]
Call(op, name, src, ok, err, cred, list) ==
    [op |-> op, name |-> name, src |-> src, ok |-> ok, err |-> err, cred |-> cred, list |-> list]
NoCall == Call("none", "", NoSource, TRUE, "none", NullCredential, <<>>)

\* new CredentialSourceRegistry(): no source registered
RegInit ==
    /\ sources = <<>>
    /\ avail = [id \in SourceIds |-> FALSE]
    /\ held = [id \in SourceIds |-> [n \in Names |-> NullValue]]
    /\ regOp = NoCall

Procs == {1, 2}
IdleLoc == [op |-> "none", name |-> "", value |-> NullValue, key |-> NoKey,
            before |-> Absent, pending |-> Absent]

ProcInit ==
    /\ pc = [p \in Procs |-> "idle"]
    /\ loc = [p \in Procs |-> IdleLoc]
    /\ ret = [p \in Procs |-> Short(NoOp)]

\* a file of lines KEY=text, or no file
EnvDoc(exists, lines) == [exists |-> exists, lines |-> lines]
NoEnvFile == EnvDoc(FALSE, <<>>)
NoPath == -1
EnvCall(op, names, backup, path, ok, err, result) ==
    [op |-> op, names |-> names, backup |-> backup, path |-> path,
     ok |-> ok, err |-> err, result |-> result]
NoEnvCall == EnvCall("none", <<>>, "unset", NoPath, TRUE, "none", <<>>)

\* new CredentialService() in a directory with no .env and no backup
EnvInit ==
    /\ envFile = NoEnvFile
    /\ backups = [t \in 0..MaxClock |-> NoEnvFile]
    /\ envOp = NoEnvCall

\* the places a vault can be in: .secretsage/ of the working directory,
\* ~/.secretsage/, and the directory a custom path names
Dirs == {"local", "global", "custom"}
NoDir == "nodir"
\* a vault directory: whether it exists, and its three files
DirState(exists, idf, rcf, vf) ==
    [exists |-> exists, identityFile |-> idf, recipientFile |-> rcf, vaultFile |-> vf]
NoVaultDir == DirState(FALSE, NoKey, NoKey, Absent)
\* config/types.ts, getDefaultConfig: defaultLocation 'global', no customPath
getDefaultConfig == [defaultLocation |-> "global", customPath |-> NoDir]
\* no config.yaml in a directory
NoConfig == [defaultLocation |-> "none", customPath |-> NoDir]
\* new CredentialService(): an empty registry, localSource null,
\* initialized false; a source of the registry is the directory its
\* LocalSource reads and writes
NewService == [initialized |-> FALSE, localSource |-> NoDir, registry |-> <<>>]
SvcCall(op, name, dir, ok, err, cred, list) ==
    [op |-> op, name |-> name, dir |-> dir, ok |-> ok, err |-> err, cred |-> cred, list |-> list]
NoSvcCall == SvcCall("none", "", NoDir, TRUE, "none", NullCred, <<>>)

\* a machine with no vault and no config file, and a new service object
MachineInit ==
    /\ disk = [d \in Dirs |-> NoVaultDir]
    /\ config = [global |-> NoConfig, local |-> NoConfig]
    /\ service = NewService
    /\ svcOp = NoSvcCall

\* the text of .gitignore as the list of its lines, split at "\n"; a line
\* is a list of pieces: a run of blanks or a word
GitFile(exists, lines) == [exists |-> exists, lines |-> lines]
NoGitignore == GitFile(FALSE, <<>>)
\* seq tells a call from the one before it
GitCall(op, result, seq) == [op |-> op, result |-> result, seq |-> seq]
NoGitCall == GitCall("none", FALSE, 0)

GitInit ==
    /\ gitignore = NoGitignore
    /\ gitOp = NoGitCall

StoreInit == BaseInit /\ ProcInit /\ RegInit /\ EnvInit /\ MachineInit /\ GitInit

\* new Date() never runs backwards; any number of calls fall in one tick
Tick ==
    /\ clock < MaxClock
    /\ clock' = clock + 1
    /\ UNCHANGED <<identityFile, recipientFile, vaultFile, keysMade, obsVars, outsideStore>>

\* initialize(): a fresh pair, both key files, the empty vault file
Initialize ==
    /\ keysMade < MaxKeys
    /\ keysMade' = keysMade + 1
    /\ identityFile' = keysMade + 1
    /\ recipientFile' = identityToRecipient(keysMade + 1)
    /\ vaultFile' = writeVault(<<>>)
    /\ lastOp' = Op("initialize", "", NullValue, TRUE, "none", FALSE, NullCred, <<>>)
    /\ prevOp' = Short(lastOp)
    /\ opSeq' = 1 - opSeq
    /\ expected' = [n \in Names |-> NullValue]
    /\ UNCHANGED <<clock, outsideStore>>

Set(name, value) ==
    LET out == setOutcome(vaultFile, recipientFile, name, value, clock)
    IN  /\ vaultFile' = IF out.ok THEN writeVault(out.val) ELSE vaultFile
        /\ lastOp' = Op("set", name, value, out.ok, out.err, FALSE, NullCred, <<>>)
        /\ prevOp' = Short(lastOp)
        /\ opSeq' = 1 - opSeq
        /\ expected' = IF out.ok THEN [expected EXCEPT ![name] = value] ELSE expected
        /\ UNCHANGED <<identityFile, recipientFile, clock, keysMade, outsideStore>>

Delete(name) ==
    LET out == deleteOutcome(vaultFile, name)
    IN  /\ vaultFile' = IF out.ok /\ out.val.found THEN writeVault(out.val.entries) ELSE vaultFile
        /\ lastOp' = Op("delete", name, NullValue, out.ok, out.err, out.val.found, NullCred, <<>>)
        /\ prevOp' = Short(lastOp)
        /\ opSeq' = 1 - opSeq
        /\ expected' = IF out.ok THEN [expected EXCEPT ![name] = NullValue] ELSE expected
        /\ UNCHANGED <<identityFile, recipientFile, clock, keysMade, outsideStore>>

Get(name) ==
    LET out == getOutcome(vaultFile, identityFile, name)
    IN  /\ lastOp' = Op("get", name, NullValue, out.ok, out.err, FALSE, out.val, <<>>)
        /\ prevOp' = Short(lastOp)
        /\ opSeq' = 1 - opSeq
        /\ UNCHANGED <<storeVars, expected, outsideStore>>

List ==
    LET out == listOutcome(vaultFile)
    IN  /\ lastOp' = Op("list", "", NullValue, out.ok, out.err, FALSE, NullCred, out.val)
        /\ prevOp' = Short(lastOp)
        /\ opSeq' = 1 - opSeq
        /\ UNCHANGED <<storeVars, expected, outsideStore>>

vars == <<storeVars, obsVars, procVars, regVars, envVars, svcVars, gitVars>>

StoreNext ==
    \/ Tick
    \/ Initialize
    \/ \E n \in Names, v \in Values : Set(n, v)
    \/ \E n \in Names : Delete(n)
    \/ \E n \in Names : Get(n)
    \/ List

SpecStore == StoreInit /\ [][StoreNext]_vars


\* ------------------------------------------------- claims on the vault store
Initialized == identityFile # NoKey /\ recipientFile # NoKey

HasName(file, n) == file.kind = "json" /\ findIndex(file.entries, n) > 0
EntryOf(file, n) == file.entries[findIndex(file.entries, n)]
CountName(list, n) == Cardinality({i \in 1..Len(list) : list[i].name = n})
OpStep == opSeq' # opSeq

\* C1: on an initialized store, get(n) returns the value of the latest
\* set(n, .) with no later delete(n), and null when there is none: the
\* answer get gives for every name is the one the map `expected` holds,
\* and so was every answer a get call returned
C1_GetReturnsLatestSet ==
    Initialized =>
        /\ \A n \in Names :
              LET out == getOutcome(vaultFile, identityFile, n)
              IN  /\ out.ok
                  /\ IF expected[n] = NullValue
                     THEN out.val = NullCred
                     ELSE /\ out.val.found
                          /\ out.val.name = n
                          /\ out.val.value = expected[n]
        /\ lastOp.op = "get" =>
              /\ lastOp.ok
              /\ lastOp.cred.value = expected[lastOp.name]

\* a get that returned the value of an overwriting set, after a delete
\* of another name
C1_Witness ==
    /\ lastOp.op = "get"
    /\ lastOp.cred.found
    /\ lastOp.cred.value = Plain(<<"a", "\"">>)
    /\ lastOp.cred.metadata.createdAt.t < lastOp.cred.metadata.updatedAt.t
    /\ prevOp.op = "delete"
    /\ prevOp.flag

\* C2: the persisted record list never holds two records of one name, and
\* after a set(name, .) list() holds exactly one record named name
C2_NamesUnique ==
    /\ \A i, j \in 1..Len(vaultFile.entries) :
          vaultFile.entries[i].name = vaultFile.entries[j].name => i = j
    /\ (lastOp.op = "set" /\ lastOp.ok) =>
          CountName(listOutcome(vaultFile).val, lastOp.name) = 1

\* a set of a name that the previous operation had set too, both names held
C2_Witness ==
    /\ lastOp.op = "set"
    /\ lastOp.ok
    /\ prevOp.op = "set"
    /\ prevOp.ok
    /\ prevOp.name = lastOp.name
    /\ Len(vaultFile.entries) = 2

C4_DeleteIdempotent ==
    [][\A n \in Names :
          (OpStep /\ lastOp'.op = "delete" /\ lastOp'.name = n) =>
              /\ findIndex(readVault(vaultFile).entries, n) = 0 =>
                    /\ lastOp'.ok
                    /\ lastOp'.flag = FALSE
                    /\ vaultFile' = vaultFile
              /\ (lastOp.op = "delete" /\ lastOp.name = n) =>
                    /\ lastOp'.ok
                    /\ vaultFile' = vaultFile
      ]_vars

\* the second of two deletes of a name, the first of which removed it from
\* a vault that holds another record
C4_Witness ==
    /\ lastOp.op = "delete"
    /\ lastOp.ok
    /\ ~lastOp.flag
    /\ prevOp.op = "delete"
    /\ prevOp.name = lastOp.name
    /\ prevOp.flag
    /\ Len(vaultFile.entries) = 1

Step(p, to, l) ==
    /\ pc' = [pc EXCEPT ![p] = to]
    /\ loc' = [loc EXCEPT ![p] = l]
    /\ UNCHANGED ret

Return(p, op) ==
    /\ pc' = [pc EXCEPT ![p] = "idle"]
    /\ loc' = [loc EXCEPT ![p] = IdleLoc]
    /\ ret' = [ret EXCEPT ![p] = Short(op)]
    /\ lastOp' = op
    /\ opSeq' = 1 - opSeq
    /\ UNCHANGED prevOp

Returned(l, ok, err) ==
    Op(l.op, l.name, l.value, ok, err, ok /\ l.op = "delete", NullCred, <<>>)

\* set, line 113: const entries = await this.readVault()
IOSetRead(p, name, value) ==
    /\ pc[p] = "idle"
    /\ Step(p, "loadRecipient",
            [op |-> "set", name |-> name, value |-> value, key |-> NoKey,
             before |-> vaultFile, pending |-> vaultFile])
    /\ UNCHANGED <<storeVars, lastOp, prevOp, opSeq, outsideIO>>

\* set, lines 116-140: loadRecipient, encrypt, new Date(), the new list
IOSetPrepare(p) ==
    /\ pc[p] = "loadRecipient"
    /\ LET l == loc[p]
           out == setOutcome(l.before, recipientFile, l.name, l.value, clock)
       IN  IF out.ok
           THEN /\ Step(p, "writeOpen", [l EXCEPT !.pending = writeVault(out.val)])
                /\ UNCHANGED <<lastOp, prevOp, opSeq>>
           ELSE Return(p, Returned(l, FALSE, out.err))
    /\ UNCHANGED <<storeVars, outsideIO>>

\* delete, lines 150-157
IODelete(p, name) ==
    /\ pc[p] = "idle"
    /\ LET out == deleteOutcome(vaultFile, name)
           l == [op |-> "delete", name |-> name, value |-> NullValue, key |-> NoKey,
                 before |-> vaultFile, pending |-> writeVault(out.val.entries)]
       IN  IF out.ok /\ out.val.found
           THEN /\ Step(p, "writeOpen", l)
                /\ UNCHANGED <<lastOp, prevOp, opSeq>>
           ELSE Return(p, Op("delete", name, NullValue, out.ok, out.err, FALSE, NullCred, <<>>))
    /\ UNCHANGED <<storeVars, outsideIO>>

\* initialize, lines 58-61: generateKeyPair, saveIdentity
IOInitSaveIdentity(p) ==
    /\ pc[p] = "idle"
    /\ keysMade < MaxKeys
    /\ keysMade' = keysMade + 1
    /\ identityFile' = keysMade + 1
    /\ Step(p, "saveRecipient",
            [op |-> "initialize", name |-> "", value |-> NullValue, key |-> keysMade + 1,
             before |-> vaultFile, pending |-> writeVault(<<>>)])
    /\ UNCHANGED <<recipientFile, vaultFile, clock, lastOp, prevOp, opSeq, outsideIO>>

\* initialize, line 64: saveRecipient
IOInitSaveRecipient(p) ==
    /\ pc[p] = "saveRecipient"
    /\ recipientFile' = identityToRecipient(loc[p].key)
    /\ Step(p, "writeOpen", loc[p])
    /\ UNCHANGED <<identityFile, vaultFile, clock, keysMade, lastOp, prevOp, opSeq, outsideIO>>

\* writeVault, line 236: fs.writeFile opens the file, truncating it
WriteOpen(p) ==
    /\ pc[p] = "writeOpen"
    /\ vaultFile' = Blank
    /\ Step(p, "writeData", loc[p])
    /\ UNCHANGED <<identityFile, recipientFile, clock, keysMade, lastOp, prevOp, opSeq, outsideIO>>

\* writeVault, lines 232-236: ensureDir or the open is refused
WriteOpenFail(p) ==
    /\ pc[p] = "writeOpen"
    /\ Return(p, Returned(loc[p], FALSE, "EACCES"))
    /\ UNCHANGED <<storeVars, outsideIO>>

\* writeVault, line 236: the whole text is written and the call returns
WriteAll(p) ==
    /\ pc[p] = "writeData"
    /\ vaultFile' = loc[p].pending
    /\ Return(p, Returned(loc[p], TRUE, "none"))
    /\ UNCHANGED <<identityFile, recipientFile, clock, keysMade, outsideIO>>

\* writeVault, line 236: a short write leaves a prefix of the text
WriteSome(p) ==
    /\ pc[p] = "writeData"
    /\ vaultFile' = Garbage
    /\ Step(p, "writeRest", loc[p])
    /\ UNCHANGED <<identityFile, recipientFile, clock, keysMade, lastOp, prevOp, opSeq, outsideIO>>

WriteRest(p) ==
    /\ pc[p] = "writeRest"
    /\ vaultFile' = loc[p].pending
    /\ Return(p, Returned(loc[p], TRUE, "none"))
    /\ UNCHANGED <<identityFile, recipientFile, clock, keysMade, outsideIO>>

\* writeVault, line 236: a write is refused (the disk is full) and
\* fs.writeFile rejects
WriteFail(p) ==
    /\ pc[p] \in {"writeData", "writeRest"}
    /\ Return(p, Returned(loc[p], FALSE, "ENOSPC"))
    /\ UNCHANGED <<storeVars, outsideIO>>

\* the process is killed inside a call; what it held in memory is kept
\* here for the claims to look at
Crash(p) ==
    /\ pc[p] \notin {"idle", "crashed"}
    /\ pc' = [pc EXCEPT ![p] = "crashed"]
    /\ UNCHANGED <<loc, ret, storeVars, lastOp, prevOp, opSeq, outsideIO>>

\* the next invocation of the tool
Restart(p) ==
    /\ pc[p] = "crashed"
    /\ Step(p, "idle", IdleLoc)
    /\ UNCHANGED <<storeVars, lastOp, prevOp, opSeq, outsideIO>>

\* get and list, from the first line to the return
IOGet(p, name) ==
    /\ pc[p] = "idle"
    /\ LET out == getOutcome(vaultFile, identityFile, name)
       IN  Return(p, Op("get", name, NullValue, out.ok, out.err, FALSE, out.val, <<>>))
    /\ UNCHANGED <<storeVars, outsideIO>>

IOList(p) ==
    /\ pc[p] = "idle"
    /\ LET out == listOutcome(vaultFile)
       IN  Return(p, Op("list", "", NullValue, out.ok, out.err, FALSE, NullCred, out.val))
    /\ UNCHANGED <<storeVars, outsideIO>>

IOGetAll(p) ==
    /\ pc[p] = "idle"
    /\ LET out == getAllOutcome(vaultFile, identityFile)
       IN  Return(p, Op("getAll", "", NullValue, out.ok, out.err, FALSE, NullCred, out.val))
    /\ UNCHANGED <<storeVars, outsideIO>>

\* someone replaces the content of an existing vault.json by text that is
\* not JSON, or by JSON that is not an array
Tamper(f) ==
    /\ \A p \in Procs : pc[p] = "idle"
    /\ vaultFile.kind \notin {"absent", f.kind}
    /\ vaultFile' = f
    /\ UNCHANGED <<identityFile, recipientFile, clock, keysMade, obsVars, procVars, regVars, envVars, svcVars, gitVars>>

Solo == {1}

IONext ==
    \/ \E p \in Solo, n \in Names, v \in Values : IOSetRead(p, n, v)
    \/ \E p \in Solo : IOSetPrepare(p)
    \/ \E p \in Solo, n \in Names : IODelete(p, n)
    \/ \E p \in Solo : IOInitSaveIdentity(p)
    \/ \E p \in Solo : IOInitSaveRecipient(p)
    \/ \E p \in Solo : WriteOpen(p)
    \/ \E p \in Solo : WriteOpenFail(p)
    \/ \E p \in Solo : WriteAll(p)
    \/ \E p \in Solo : WriteSome(p)
    \/ \E p \in Solo : WriteRest(p)
    \/ \E p \in Solo : WriteFail(p)
    \/ \E p \in Solo : Crash(p)
    \/ \E p \in Solo : Restart(p)
    \/ \E p \in Solo, n \in Names : IOGet(p, n)
    \/ \E p \in Solo : IOList(p)
    \/ \E p \in Solo : IOGetAll(p)
    \/ \E f \in {Garbage, NonArray} : Tamper(f)

SpecIO == StoreInit /\ [][IONext]_vars


\* ------------------------------------------------- claims on the I/O steps
Corrupt(file) == file.kind \in {"garbage", "nonarray"}

\* two states of vault.json that hold the same record list: the same
\* content, or contents that are both a missing file, an empty file or a
\* written list, and read as the same list
SameVault(f, g) ==
    \/ f = g
    \/ /\ f.kind \in {"absent", "blank", "json"}
       /\ g.kind \in {"absent", "blank", "json"}
       /\ readVault(f).entries = readVault(g).entries

\* the process whose call returns in this step
Returns(p) ==
    /\ OpStep
    /\ pc[p] # "crashed"
    /\ pc'[p] = "idle"
    /\ \A q \in Procs \ {p} : pc'[q] = pc[q]

\* C5: a list() or get() on a vault file that exists and is not a valid
\* record list fails with an error and never answers as an empty vault
\* would, while on a vault file that does not exist both answer as an
\* empty vault does, without an error
C5_CorruptVaultDetected ==
    [][(OpStep /\ lastOp'.op \in {"list", "get"}) =>
          /\ Corrupt(vaultFile) =>
                /\ ~lastOp'.ok
                /\ lastOp'.err \in {"CorruptVault", "TypeError"}
          /\ vaultFile.kind = "absent" =>
                /\ lastOp'.ok
                /\ lastOp'.list = <<>>
                /\ lastOp'.cred = NullCred
      ]_vars

\* C6: while a set or a delete runs, and when it is killed between two
\* steps, vault.json holds the whole record list from before the call or
\* the whole new one (a missing file and an empty file both counted as
\* holding the empty list), never a truncated or partly written one
C6_VaultFileOldOrNew ==
    \A p \in Procs :
        (pc[p] # "idle" /\ loc[p].op \in {"set", "delete"}) =>
            \/ SameVault(vaultFile, loc[p].before)
            \/ SameVault(vaultFile, loc[p].pending)

\* C7: a set or delete call that ends in an error leaves the record list
\* of the vault file (a missing file and an empty file both counted as
\* the empty list) and the key files as they were when the call began
C7_FailedCallChangesNothing ==
    [][\A p \in Procs :
          (Returns(p) /\ ~lastOp'.ok /\ lastOp'.op \in {"set", "delete"}) =>
              /\ SameVault(vaultFile', IF pc[p] = "idle" THEN vaultFile ELSE loc[p].before)
              /\ identityFile' = identityFile
              /\ recipientFile' = recipientFile
      ]_vars


\* ------------------------------------------------- sources/registry.ts
MaxPriority == 2

\* an ICredentialSource: its readonly id and priority, and whether it has
\* the optional set and delete methods
SourceObjects ==
    [id : SourceIds, priority : 1..MaxPriority, hasSet : BOOLEAN, hasDelete : BOOLEAN]

IndexOfId(srcs, id) ==
    IF \E i \in 1..Len(srcs) : srcs[i].id = id
    THEN CHOOSE i \in 1..Len(srcs) : srcs[i].id = id
    ELSE 0

\* Map.set: a new key goes last, a key that is there keeps its place
MapSet(srcs, source) ==
    LET i == IndexOfId(srcs, source.id)
    IN  IF i > 0 THEN [srcs EXCEPT ![i] = source] ELSE Append(srcs, source)

\* Map.delete
MapDelete(srcs, id) ==
    LET i == IndexOfId(srcs, id)
    IN  IF i > 0 THEN SubSeq(srcs, 1, i - 1) \o SubSeq(srcs, i + 1, Len(srcs)) ELSE srcs

RECURSIVE Filter(_, _)
\* getAvailableSources, lines 62-68: the registered sources that are available
Filter(srcs, av) ==
    IF srcs = <<>> THEN <<>>
    ELSE IF av[Head(srcs).id]
         THEN <<Head(srcs)>> \o Filter(Tail(srcs), av)
         ELSE Filter(Tail(srcs), av)

RECURSIVE InsertSorted(_, _)
\* a place for x after every element whose priority is not greater
InsertSorted(sorted, x) ==
    IF sorted = <<>> THEN <<x>>
    ELSE IF Head(sorted).priority <= x.priority
         THEN <<Head(sorted)>> \o InsertSorted(Tail(sorted), x)
         ELSE <<x>> \o sorted

\* the sources as the Map iterates them, not sorted
Unsorted(srcs) == srcs

RECURSIVE SortByPriority(_)
\* Array.prototype.sort((a, b) => a.priority - b.priority): a stable sort
SortByPriority(srcs) ==
    IF srcs = <<>> THEN <<>>
    ELSE InsertSorted(SortByPriority(SubSeq(srcs, 1, Len(srcs) - 1)), srcs[Len(srcs)])

getAvailableSources(srcs, av) == SortByPriority(Filter(srcs, av))

\* a backend's get(name): its credential, or null
sourceGet(id, h, name) ==
    IF h[id][name] = NullValue
    THEN NullCredential
    ELSE [found |-> TRUE, name |-> name, value |-> h[id][name], source |-> id]

NameOrder == <<"A", "B">>

RECURSIVE sourceListFrom(_, _, _)
sourceListFrom(id, h, i) ==
    IF i > Len(NameOrder) THEN <<>>
    ELSE IF h[id][NameOrder[i]] = NullValue
         THEN sourceListFrom(id, h, i + 1)
         ELSE <<[name |-> NameOrder[i], source |-> id]>> \o sourceListFrom(id, h, i + 1)

\* a backend's list(): the metadata of what it holds
sourceList(id, h) == sourceListFrom(id, h, 1)

RECURSIVE firstHit(_, _, _)
firstHit(available, h, name) ==
    IF available = <<>> THEN NullCredential
    ELSE LET credential == sourceGet(Head(available).id, h, name)
         IN  IF credential.found THEN credential ELSE firstHit(Tail(available), h, name)


\* get, lines 80-88: the first non-null answer in priority order
registryGet(srcs, av, h, name) == firstHit(getAvailableSources(srcs, av), h, name)

RECURSIVE pushUnseen(_, _)
\* list, lines 101-106: push each credential whose name is not yet seen
pushUnseen(result, credentials) ==
    IF credentials = <<>> THEN result
    ELSE IF \E i \in 1..Len(result) : result[i].name = Head(credentials).name
         THEN pushUnseen(result, Tail(credentials))
         ELSE pushUnseen(Append(result, Head(credentials)), Tail(credentials))

RECURSIVE listFrom(_, _, _)
listFrom(available, h, result) ==
    IF available = <<>> THEN result
    ELSE listFrom(Tail(available), h, pushUnseen(result, sourceList(Head(available).id, h)))

\* list, lines 95-110
registryList(srcs, av, h) == listFrom(getAvailableSources(srcs, av), h, <<>>)

RECURSIVE firstWritable(_)
\* set, lines 137-144: the first available source that has set
firstWritable(available) ==
    IF available = <<>> THEN [ok |-> FALSE, err |-> "NoWritableSource", target |-> NoSource]
    ELSE IF Head(available).hasSet
         THEN [ok |-> TRUE, err |-> "none", target |-> Head(available).id]
         ELSE firstWritable(Tail(available))

\* if (sourceId), line 124: undefined and the empty string are both falsy
Truthy(sourceId) == sourceId \notin {NoSource, ""}

\* set with no regard for source.set
setTargetAnySource(srcs, av, sourceId) ==
    IF Truthy(sourceId)
    THEN IF IndexOfId(srcs, sourceId) = 0
         THEN [ok |-> FALSE, err |-> "UnknownSource", target |-> NoSource]
         ELSE [ok |-> TRUE, err |-> "none", target |-> sourceId]
    ELSE IF getAvailableSources(srcs, av) = <<>>
         THEN [ok |-> FALSE, err |-> "NoWritableSource", target |-> NoSource]
         ELSE [ok |-> TRUE, err |-> "none", target |-> Head(getAvailableSources(srcs, av)).id]

\* set, lines 124-144: the source written to, or the error thrown:
\* "Source '..' not found", "Source '..' is read-only",
\* "No writable credential source available"
setTarget(srcs, av, sourceId) ==
    IF Truthy(sourceId)
    THEN LET i == IndexOfId(srcs, sourceId)
         IN  IF i = 0 THEN [ok |-> FALSE, err |-> "UnknownSource", target |-> NoSource]
             ELSE IF ~srcs[i].hasSet
                  THEN [ok |-> FALSE, err |-> "ReadOnlySource", target |-> NoSource]
                  ELSE [ok |-> TRUE, err |-> "none", target |-> sourceId]
    ELSE firstWritable(getAvailableSources(srcs, av))

\* register, lines 26-28
Register(source) ==
    /\ sources' = MapSet(sources, source)
    /\ regOp' = NoCall
    /\ UNCHANGED <<avail, held, outsideRegistry>>

\* unregister, lines 35-37
Unregister(id) ==
    /\ sources' = MapDelete(sources, id)
    /\ regOp' = NoCall
    /\ UNCHANGED <<avail, held, outsideRegistry>>

\* what a backend answers to isAvailable() changes between calls
SetAvailable(id) ==
    /\ avail' = [avail EXCEPT ![id] = ~avail[id]]
    /\ regOp' = NoCall
    /\ UNCHANGED <<sources, held, outsideRegistry>>

\* what a backend holds changes outside the registry
BackendPut(id, name, value) ==
    /\ held[id][name] # value
    /\ held' = [held EXCEPT ![id][name] = value]
    /\ regOp' = NoCall
    /\ UNCHANGED <<sources, avail, outsideRegistry>>

RegGet(name) ==
    /\ regOp' = Call("get", name, NoSource, TRUE, "none",
                     registryGet(sources, avail, held, name), <<>>)
    /\ UNCHANGED <<sources, avail, held, outsideRegistry>>

RegList ==
    /\ regOp' = Call("list", "", NoSource, TRUE, "none", NullCredential,
                     registryList(sources, avail, held))
    /\ UNCHANGED <<sources, avail, held, outsideRegistry>>

RegSet(name, value, sourceId) ==
    LET t == setTarget(sources, avail, sourceId)
    IN  /\ held' = IF t.ok THEN [held EXCEPT ![t.target][name] = value] ELSE held
        /\ regOp' = Call("set", name, sourceId, t.ok, t.err,
                         [found |-> FALSE, name |-> name, value |-> value, source |-> t.target], <<>>)
        /\ UNCHANGED <<sources, avail, outsideRegistry>>

RECURSIVE deleteFromAllSkipping(_, _, _, _)
\* delete that stops at the first source that removed the name
deleteFromAllSkipping(available, h, name, deleted) ==
    IF available = <<>> \/ deleted THEN [held |-> h, deleted |-> deleted]
    ELSE IF Head(available).hasDelete
         THEN deleteFromAllSkipping(Tail(available),
                  [h EXCEPT ![Head(available).id][name] = NullValue], name,
                  deleted \/ h[Head(available).id][name] # NullValue)
         ELSE deleteFromAllSkipping(Tail(available), h, name, deleted)

RECURSIVE deleteFromAll(_, _, _, _)
\* delete, lines 166-174: every available source that has delete is asked,
\* a backend's delete(name) answering whether it held the name
deleteFromAll(available, h, name, deleted) ==
    IF available = <<>> THEN [held |-> h, deleted |-> deleted]
    ELSE IF Head(available).hasDelete
         THEN deleteFromAll(Tail(available),
                  [h EXCEPT ![Head(available).id][name] = NullValue], name,
                  deleted \/ h[Head(available).id][name] # NullValue)
         ELSE deleteFromAll(Tail(available), h, name, deleted)

\* delete, lines 154-175: "Source '..' not found",
\* "Source '..' doesn't support deletion", or the answer and what the
\* backends hold afterwards
registryDelete(srcs, av, h, name, sourceId) ==
    IF Truthy(sourceId)
    THEN LET i == IndexOfId(srcs, sourceId)
         IN  IF i = 0
             THEN [ok |-> FALSE, err |-> "UnknownSource", held |-> h, deleted |-> FALSE]
             ELSE IF ~srcs[i].hasDelete
                  THEN [ok |-> FALSE, err |-> "NoDeleteSupport", held |-> h, deleted |-> FALSE]
                  ELSE [ok |-> TRUE, err |-> "none",
                        held |-> [h EXCEPT ![sourceId][name] = NullValue],
                        deleted |-> h[sourceId][name] # NullValue]
    ELSE LET r == deleteFromAll(getAvailableSources(srcs, av), h, name, FALSE)
         IN  [ok |-> TRUE, err |-> "none", held |-> r.held, deleted |-> r.deleted]

\* the boolean a delete call returned is kept in cred.found
RegDelete(name, sourceId) ==
    LET r == registryDelete(sources, avail, held, name, sourceId)
    IN  /\ held' = r.held
        /\ regOp' = Call("delete", name, sourceId, r.ok, r.err,
                         [found |-> r.deleted, name |-> name, value |-> NullValue,
                          source |-> NoSource], <<>>)
        /\ UNCHANGED <<sources, avail, outsideRegistry>>

\* the sources handed to register: read-only ones, with neither set nor
\* delete, and ones with both, as LocalSource is
Registrable == {source \in SourceObjects : source.hasDelete = source.hasSet}

\* the sourceId arguments of set and delete: none, the empty string, and
\* one id, which is registered in some states and not in others (the two
\* ids are alike in everything else)
SourceIdArgs == {NoSource, "", "s1"}

\* the values handed to the backends; which backend answered is told by
\* the credential's source, so one value is enough here
RegistryValues == {Plain(<<"a">>)}

RegistryNext ==
    \/ \E source \in Registrable : Register(source)
    \/ \E id \in SourceIds : Unregister(id)
    \/ \E id \in SourceIds : SetAvailable(id)
    \/ \E id \in SourceIds, n \in Names, v \in RegistryValues \cup {NullValue} : BackendPut(id, n, v)
    \/ \E n \in Names : RegGet(n)
    \/ RegList
    \/ \E n \in Names, v \in RegistryValues, id \in SourceIdArgs : RegSet(n, v, id)
    \/ \E n \in Names, id \in SourceIdArgs : RegDelete(n, id)

SpecRegistry == StoreInit /\ [][RegistryNext]_vars


Registered(id) == IndexOfId(sources, id) > 0
PriorityOf(id) == sources[IndexOfId(sources, id)].priority
\* the registered, available backends that hold name n
Holders(n) ==
    {id \in SourceIds : Registered(id) /\ avail[id] /\ held[id][n] # NullValue}
\* the registered, available backends that can be written to
Writable ==
    {id \in SourceIds : Registered(id) /\ avail[id] /\ sources[IndexOfId(sources, id)].hasSet}
Least(ids, id) ==
    id \in ids /\ \A other \in ids : PriorityOf(id) <= PriorityOf(other)

GetRight(n, c) ==
    IF Holders(n) = {}
    THEN ~c.found
    ELSE /\ c.found
         /\ c.name = n
         /\ Least(Holders(n), c.source)
         /\ c.value = held[c.source][n]

ListRight(l) ==
    /\ \A n \in Names : CountName(l, n) = IF Holders(n) = {} THEN 0 ELSE 1
    /\ \A k \in 1..Len(l) : Least(Holders(l[k].name), l[k].source)
    /\ \A j, k \in 1..Len(l) : j < k => PriorityOf(l[j].source) <= PriorityOf(l[k].source)

\* C9: the registry's get(n) returns the credential of an available
\* backend of the smallest priority among those holding n, and null exactly
\* when no available backend holds n; its list() has every name held by an
\* available backend once, as the first backend in priority order reports
\* it, the entries in non-decreasing priority of their backends.  This is
\* so of the answer for every name in every state, and of every answer a
\* call returned.
C9_PriorityResolution ==
    /\ \A n \in Names : GetRight(n, registryGet(sources, avail, held, n))
    /\ ListRight(registryList(sources, avail, held))
    /\ regOp.op = "get" => GetRight(regOp.name, regOp.cred)
    /\ regOp.op = "list" => ListRight(regOp.list)

\* two available backends hold the name asked for, the one registered
\* first has the larger priority, and get has answered from the other
C9_Witness ==
    /\ regOp.op = "get"
    /\ Len(sources) = 2
    /\ sources[1].priority > sources[2].priority
    /\ Holders(regOp.name) = SourceIds
    /\ regOp.cred.found
    /\ regOp.cred.source = sources[2].id

Deletable ==
    {id \in SourceIds : Registered(id) /\ avail[id] /\ sources[IndexOfId(sources, id)].hasDelete}

\* what delete(n) without sourceId does to the backends that have delete,
\* and what it returns
DeleteFromEvery(n) ==
    /\ regOp'.ok
    /\ \A id \in SourceIds, m \in Names :
          held'[id][m] = IF id \in Deletable /\ m = n THEN NullValue ELSE held[id][m]
    /\ regOp'.cred.found = (\E id \in Deletable : held[id][n] # NullValue)

\* C11 as stated: after delete(n) without sourceId no available backend
\* holds n any more
C11_NoCopyLeft ==
    [][(regOp'.op = "delete" /\ ~Truthy(regOp'.src)) =>
          /\ DeleteFromEvery(regOp'.name)
          /\ \A id \in SourceIds :
                (Registered(id) /\ avail[id]) => held'[id][regOp'.name] = NullValue
    ]_vars

\* C11: delete(n) without sourceId removes n from every available backend
\* that has delete, not only from the first that holds it, leaves
\* everything else as it is, and returns true exactly when one of them held
\* n; afterwards no available backend that has delete holds n
C11_DeleteFromAll ==
    [][(regOp'.op = "delete" /\ ~Truthy(regOp'.src)) =>
          /\ DeleteFromEvery(regOp'.name)
          /\ \A id \in Deletable : held'[id][regOp'.name] = NullValue
    ]_vars

\* delete without sourceId has returned true with two available backends
\* that have delete: neither holds the name now, both still hold the other
C11_Witness ==
    /\ regOp.op = "delete"
    /\ regOp.src = NoSource
    /\ regOp.cred.found
    /\ Deletable = SourceIds
    /\ \A id \in SourceIds : held[id][regOp.name] = NullValue
    /\ \E m \in Names : \A id \in SourceIds : held[id][m] # NullValue



\* ------------------------------------------------- core/service.ts: grant and revoke
MaxText == 3

\* /[\s#"'\\]/.test(value) || value.includes('=')
needsQuotes(value) ==
    \E i \in 1..Len(value) : value[i] \in {" ", "#", "\"", "'", "\\", "="}

RECURSIVE EscapeQuotes(_)
\* value.replace(/"/g, '\\"')
EscapeQuotes(value) ==
    IF value = <<>> THEN <<>>
    ELSE (IF Head(value) = "\"" THEN <<"\\", "\"">> ELSE <<Head(value)>>)
         \o EscapeQuotes(Tail(value))

\* stringifyEnv, lines 282-283
quotedValue(value) ==
    IF needsQuotes(value) THEN <<"\"">> \o EscapeQuotes(value) \o <<"\"">> ELSE value

\* stringifyEnv, lines 277-288: one line KEY=text per entry of the object
stringifyEnv(env) ==
    [i \in 1..Len(env) |-> [key |-> env[i].key, text |-> quotedValue(env[i].value)]]

RECURSIVE TrimStart(_)
TrimStart(text) ==
    IF text # <<>> /\ Head(text) = " " THEN TrimStart(Tail(text)) ELSE text

RECURSIVE TrimEnd(_)
TrimEnd(text) ==
    IF text # <<>> /\ text[Len(text)] = " " THEN TrimEnd(SubSeq(text, 1, Len(text) - 1)) ELSE text

\* dotenv's parse of the text after KEY=: the text is trimmed and one pair
\* of surrounding quotes is taken off; what is inside stays as it is (a
\* backslash before a quote is not taken off; only \n and \r are expanded
\* inside double quotes, and the values here hold neither)
parseValue(text) ==
    LET value == TrimEnd(TrimStart(text))
    IN  IF Len(value) >= 2 /\ value[1] \in {"\"", "'"} /\ value[Len(value)] = value[1]
        THEN SubSeq(value, 2, Len(value) - 1)
        ELSE value

KeyIndex(env, key) ==
    IF \E i \in 1..Len(env) : env[i].key = key
    THEN CHOOSE i \in 1..Len(env) : env[i].key = key
    ELSE 0

\* existingEnv[name] = value: a new key goes last, a key that is there
\* keeps its place
ObjSet(env, key, value) ==
    IF KeyIndex(env, key) = 0
    THEN Append(env, [key |-> key, value |-> value])
    ELSE [env EXCEPT ![KeyIndex(env, key)] = [key |-> key, value |-> value]]

\* delete existingEnv[name]
ObjDelete(env, key) ==
    LET i == KeyIndex(env, key)
    IN  IF i = 0 THEN env ELSE SubSeq(env, 1, i - 1) \o SubSeq(env, i + 1, Len(env))

RECURSIVE parseLines(_, _)
parseLines(lines, env) ==
    IF lines = <<>> THEN env
    ELSE parseLines(Tail(lines), ObjSet(env, Head(lines).key, parseValue(Head(lines).text)))

\* parseEnv(content), lines 168 and 205
parseEnv(lines) == parseLines(lines, <<>>)

\* the name -> value mapping a reader of the document gets
ReadEnv(doc) == IF doc.exists THEN parseEnv(doc.lines) ELSE <<>>

\* this.registry.get(name), line 180, with the LocalSource that init()
\* registered as the only source: not available without identity file
serviceGet(vf, idf, name) ==
    IF idf = NoKey THEN Ok(NullCred) ELSE getOutcome(vf, idf, name)

RECURSIVE grantLoop(_, _, _, _, _)
\* grant, lines 178-185
grantLoop(names, env, granted, vf, idf) ==
    IF names = <<>> THEN [ok |-> TRUE, err |-> "none", env |-> env, granted |-> granted]
    ELSE LET cred == serviceGet(vf, idf, Head(names))
         IN  IF ~cred.ok
             THEN [ok |-> FALSE, err |-> cred.err, env |-> env, granted |-> granted]
             ELSE IF cred.val.found
                  THEN grantLoop(Tail(names), ObjSet(env, Head(names), cred.val.value.body),
                                 Append(granted, Head(names)), vf, idf)
                  ELSE grantLoop(Tail(names), env, granted, vf, idf)

RECURSIVE revokeLoopAll(_, _, _)
\* every requested name recorded as revoked
revokeLoopAll(names, env, revoked) ==
    IF names = <<>> THEN [env |-> env, revoked |-> revoked]
    ELSE revokeLoopAll(Tail(names), ObjDelete(env, Head(names)), Append(revoked, Head(names)))

RECURSIVE revokeLoop(_, _, _)
\* revoke, lines 207-213
revokeLoop(names, env, revoked) ==
    IF names = <<>> THEN [env |-> env, revoked |-> revoked]
    ELSE IF KeyIndex(env, Head(names)) > 0
         THEN revokeLoop(Tail(names), ObjDelete(env, Head(names)), Append(revoked, Head(names)))
         ELSE revokeLoop(Tail(names), env, revoked)

\* getEnvBackupPath, lines 117-120: the path is the time of the call to
\* the millisecond
getEnvBackupPath(now) == now

\* the values of a mapping are within the lengths followed here
WithinText(env) == \A i \in 1..Len(env) : Len(env[i].value) <= MaxText


\* initializeVault, lines 67-94: LocalSource.initialize(); made once here,
\* in a directory that has no vault yet
ServiceInitializeVault ==
    /\ keysMade < MaxKeys
    /\ identityFile = NoKey
    /\ keysMade' = keysMade + 1
    /\ identityFile' = keysMade + 1
    /\ recipientFile' = identityToRecipient(keysMade + 1)
    /\ vaultFile' = writeVault(<<>>)
    /\ envOp' = NoEnvCall
    /\ UNCHANGED <<clock, obsVars, procVars, regVars, envFile, backups, svcVars, gitVars>>

\* add, lines 124-127: registry.set without sourceId, which is
\* LocalSource.set; nothing is written when the source is not available
ServiceAdd(name, value) ==
    LET out == setOutcome(vaultFile, recipientFile, name, value, clock)
    IN  /\ vaultFile' = IF identityFile # NoKey /\ out.ok THEN writeVault(out.val) ELSE vaultFile
        /\ envOp' = NoEnvCall
        /\ UNCHANGED <<identityFile, recipientFile, clock, keysMade,
                       obsVars, procVars, regVars, envFile, backups, svcVars, gitVars>>

\* a backup only when it is asked for
backupOnRequestOnly(doc, backup) == doc.exists /\ backup = "yes"

\* grant, lines 166-171: the document exists and options.backup is not false
backupWanted(doc, backup) == doc.exists /\ backup # "no"

\* init() that creates the vault file when there is none
ensureInitializedCreating(vf) == IF vf.kind = "absent" THEN writeVault(<<>>) ELSE vf

\* ensureInitialized, lines 268-272, and init, lines 40-62: a LocalSource
\* object is made and registered, no file is written
ensureInitialized(vf) == vf

\* grant, lines 156-192; the path field of the call is the backup path
\* written to
ServiceGrant(names, backup) ==
    LET r == grantLoop(names, ReadEnv(envFile), <<>>, vaultFile, identityFile)
        backupPath == getEnvBackupPath(clock)
    IN  /\ WithinText(r.env)
        /\ vaultFile' = ensureInitialized(vaultFile)
        /\ backups' = IF backupWanted(envFile, backup)
                      THEN [backups EXCEPT ![backupPath] = envFile]
                      ELSE backups
        /\ envFile' = IF r.ok THEN EnvDoc(TRUE, stringifyEnv(r.env)) ELSE envFile
        /\ envOp' = EnvCall("grant", names, backup,
                            IF backupWanted(envFile, backup) THEN backupPath ELSE NoPath,
                            r.ok, r.err, r.granted)
        /\ UNCHANGED <<identityFile, recipientFile, clock, keysMade,
                       obsVars, procVars, regVars, svcVars, gitVars>>

\* revoke, lines 197-220
ServiceRevoke(names) ==
    LET r == revokeLoop(names, ReadEnv(envFile), <<>>)
    IN  /\ WithinText(r.env)
        /\ envFile' = IF envFile.exists THEN EnvDoc(TRUE, stringifyEnv(r.env)) ELSE envFile
        /\ envOp' = EnvCall("revoke", names, "unset", NoPath, TRUE, "none",
                            IF envFile.exists THEN r.revoked ELSE <<>>)
        /\ UNCHANGED <<storeVars, obsVars, procVars, regVars, backups, svcVars, gitVars>>

\* the lists of names handed to grant and revoke
NameLists == {<<"A">>, <<"B">>, <<"A", "B">>}
\* options.backup: left out, true, false
BackupArgs == {"unset", "yes", "no"}

EnvNext ==
    \/ ServiceInitializeVault
    \/ \E n \in Names, v \in Values : ServiceAdd(n, v)
    \/ \E names \in NameLists, backup \in BackupArgs : ServiceGrant(names, backup)
    \/ \E names \in NameLists : ServiceRevoke(names)

\* every call here falls within one reading of the clock
SpecEnv == StoreInit /\ [][EnvNext]_vars

\* grants as time passes, in a directory with no vault
BackupNext ==
    \/ Tick
    \/ \E names \in NameLists, backup \in BackupArgs : ServiceGrant(names, backup)
    \/ \E names \in NameLists : ServiceRevoke(names)

SpecBackup == StoreInit /\ [][BackupNext]_vars


\* ------------------------------------------------- claims on grant and revoke
InList(names, n) == \E i \in 1..Len(names) : names[i] = n

\* what a reader of the document finds under key n
Entry(doc, n) ==
    LET env == ReadEnv(doc)
        i == KeyIndex(env, n)
    IN  IF i = 0 THEN [has |-> FALSE, value |-> <<>>]
        ELSE [has |-> TRUE, value |-> env[i].value]

\* the name -> value mapping of the document
Mapping(doc) == [n \in Names |-> Entry(doc, n)]

\* the text written after KEY= for key n
TextOf(doc, n) ==
    doc.lines[CHOOSE i \in 1..Len(doc.lines) : doc.lines[i].key = n]

Resolves(n) == serviceGet(vaultFile, identityFile, n).val.found
PlaintextOf(n) == serviceGet(vaultFile, identityFile, n).val.value.body

GrantStep == envOp'.op = "grant"
RevokeStep == envOp'.op = "revoke"

\* C12: a grant or revoke leaves every key that is not among its names with
\* the value it had, and adds or removes no key that is not among them
C12_OtherKeysKept ==
    [][(GrantStep \/ RevokeStep) =>
          \A n \in Names :
              ~InList(envOp'.names, n) => Entry(envFile', n) = Entry(envFile, n)
    ]_vars

\* the document grant(names) leaves, and the one revoke(names) leaves
AfterGrant(doc, names) ==
    LET r == grantLoop(names, ReadEnv(doc), <<>>, vaultFile, identityFile)
    IN  IF r.ok THEN EnvDoc(TRUE, stringifyEnv(r.env)) ELSE doc

AfterRevoke(doc, names) ==
    IF doc.exists
    THEN EnvDoc(TRUE, stringifyEnv(revokeLoop(names, ReadEnv(doc), <<>>).env))
    ELSE doc

\* C13: for names none of which is a key of the document, grant(names)
\* followed by revoke(names) gives back the mapping of the document
C13_GrantRevokeInverse ==
    \A names \in NameLists :
        (\A n \in Names : InList(names, n) => ~Entry(envFile, n).has) =>
            Mapping(AfterRevoke(AfterGrant(envFile, names), names)) = Mapping(envFile)

\* C14: with the vault as it is, the grant that has just returned leaves
\* the document as it is when it is made again, and so does the revoke that
\* has just returned, which then revokes nothing; no key is in the
\* document twice
C14_Idempotent ==
    /\ (envOp.op = "grant" /\ envOp.ok) =>
          AfterGrant(envFile, envOp.names) = envFile
    /\ envOp.op = "revoke" =>
          /\ AfterRevoke(envFile, envOp.names) = envFile
          /\ revokeLoop(envOp.names, ReadEnv(envFile), <<>>).revoked = <<>>
    /\ \A i, j \in 1..Len(envFile.lines) :
          envFile.lines[i].key = envFile.lines[j].key => i = j

\* C15: grant(names) returns the requested names that resolve, and the
\* document then has each of them with the plaintext of its credential; a
\* name that does not resolve is not returned, raises no error and is
\* not added
C15_GrantedAreWritten ==
    [][GrantStep =>
          /\ envOp'.ok
          /\ \A n \in Names :
                /\ InList(envOp'.result, n) <=> (InList(envOp'.names, n) /\ Resolves(n))
                /\ InList(envOp'.result, n) =>
                      Entry(envFile', n) = [has |-> TRUE, value |-> PlaintextOf(n)]
                /\ (InList(envOp'.names, n) /\ ~Resolves(n)) =>
                      Entry(envFile', n).has = Entry(envFile, n).has
    ]_vars

C17_BackupBeforeWrite ==
    [][GrantStep =>
          IF envFile.exists /\ envOp'.backup \in {"unset", "yes"}
          THEN \E t \in 0..MaxClock :
                  /\ backups'[t] = envFile
                  /\ \A u \in 0..MaxClock \ {t} : backups'[u] = backups[u]
          ELSE backups' = backups
    ]_vars

\* a grant with backup not mentioned has changed a document, and the
\* backup holds the document from before
C17_Witness ==
    /\ envOp.op = "grant"
    /\ envOp.backup = "unset"
    /\ envOp.path # NoPath
    /\ backups[envOp.path].exists
    /\ Len(backups[envOp.path].lines) > 0
    /\ backups[envOp.path] # envFile

\* C18: a grant that writes a backup writes it to a path at which no
\* backup of an earlier grant lies
C18_BackupPathsDistinct ==
    [][(GrantStep /\ envOp'.path # NoPath) => ~backups[envOp'.path].exists]_vars

\* C19: a grant or revoke leaves the vault file and both key files as they
\* are, and list() on the vault answers after it as before
C19_VaultUntouched ==
    [][(GrantStep \/ RevokeStep) =>
          /\ vaultFile' = vaultFile
          /\ identityFile' = identityFile
          /\ recipientFile' = recipientFile
          /\ listOutcome(vaultFile') = listOutcome(vaultFile)
    ]_vars

\* a revoke has taken A out of the document, and the vault still has the
\* record of A
C19_Witness ==
    /\ envOp.op = "revoke"
    /\ InList(envOp.result, "A")
    /\ ~Entry(envFile, "A").has
    /\ HasName(vaultFile, "A")
    /\ listOutcome(vaultFile).ok
    /\ Len(listOutcome(vaultFile).val) > 0

\* C20: the line a grant writes for a credential reads back as the value
\* of the credential, character for character
C20_LineReadsBack ==
    [][(GrantStep /\ envOp'.ok) =>
          \A n \in Names :
              InList(envOp'.result, n) =>
                  parseValue(TextOf(envFile', n).text) = PlaintextOf(n)
    ]_vars


\* ------------------------------------------------- core/service.ts: updateGitignore
MaxLines == 2

\* const entriesToAdd = ['.env', '.env.*', '.secretsage/']
entriesToAdd == << <<".env">>, <<".env.*">>, <<".secretsage/">> >>
SecretSageHeader == <<"#", " ", "SecretSage">>

\* lines 240-243: content is '' when there is no file; ''.split('\n') is ['']
GitContent(file) == IF file.exists THEN file.lines ELSE << <<>> >>

\* l.trim()
Trim(line) == TrimEnd(TrimStart(line))

\* content.split('\n').map((l) => l.trim())
trimmedLines(content) == [i \in 1..Len(content) |-> Trim(content[i])]

\* lines.includes(entry)
includes(lines, entry) == \E i \in 1..Len(lines) : lines[i] = entry

\* every entry is added, whatever the file holds
additionsUnchecked(lines) == entriesToAdd

\* lines 248-252: the entries that are no line of the file
additions(lines) == SelectSeq(entriesToAdd, LAMBDA entry : ~includes(lines, entry))

RECURSIVE contentTrimEnd(_)
\* content.trimEnd(): the blanks and line ends at the end of the text go
contentTrimEnd(content) ==
    IF Len(content) > 1 /\ TrimEnd(content[Len(content)]) = <<>>
    THEN contentTrimEnd(SubSeq(content, 1, Len(content) - 1))
    ELSE [content EXCEPT ![Len(content)] = TrimEnd(content[Len(content)])]

\* lines 258-259: content.trimEnd() + '\n\n# SecretSage\n' +
\* additions.join('\n') + '\n'
newContent(content, adds) ==
    contentTrimEnd(content) \o << <<>>, SecretSageHeader >> \o adds \o << <<>> >>

\* updateGitignore, lines 236-263: the file after the call and the
\* boolean returned
updateGitignore(file) ==
    LET content == GitContent(file)
        adds == additions(trimmedLines(content))
    IN  IF adds = <<>>
        THEN [file |-> file, result |-> FALSE]
        ELSE [file |-> GitFile(TRUE, newContent(content, adds)), result |-> TRUE]

UpdateGitignore ==
    LET r == updateGitignore(gitignore)
    IN  /\ gitignore' = r.file
        /\ gitOp' = GitCall("update", r.result, 1 - gitOp.seq)
        /\ UNCHANGED <<storeVars, obsVars, procVars, regVars, envVars, svcVars>>

\* the lines someone keeps in a .gitignore
GitLines == {<<".env">>, <<" ", ".env.*", " ">>, <<".secretsage/">>, <<"node_modules">>, <<>>}

\* someone writes .gitignore
GitWrite(lines) ==
    /\ gitignore' = GitFile(TRUE, lines)
    /\ gitOp' = GitCall("write", FALSE, 1 - gitOp.seq)
    /\ UNCHANGED <<storeVars, obsVars, procVars, regVars, envVars, svcVars>>

\* someone removes .gitignore
GitRemove ==
    /\ gitignore.exists
    /\ gitignore' = NoGitignore
    /\ gitOp' = GitCall("remove", FALSE, 1 - gitOp.seq)
    /\ UNCHANGED <<storeVars, obsVars, procVars, regVars, envVars, svcVars>>

GitNext ==
    \/ UpdateGitignore
    \/ \E n \in 1..MaxLines : \E lines \in [1..n -> GitLines] : GitWrite(lines)
    \/ GitRemove

SpecGitignore == StoreInit /\ [][GitNext]_vars

\* ------------------------------------------------- claims on updateGitignore
\* how many lines of the text are the entry, blanks at their ends aside
CountLine(content, entry) ==
    Cardinality({i \in 1..Len(content) : Trim(content[i]) = entry})

\* the lines of the text that are not blank, without the blanks at their ends
NonBlank(content) == SelectSeq(trimmedLines(content), LAMBDA l : l # <<>>)

\* the entries that are no line of the text
Missing(content) == SelectSeq(entriesToAdd, LAMBDA e : CountLine(content, e) = 0)

UpdateStep == gitOp'.seq # gitOp.seq /\ gitOp'.op = "update"

\* C25: updateGitignore appends, after the lines the file had, the header
\* and exactly those of .env, .env.* and .secretsage/ that were no line of
\* the file, and returns whether it appended anything; no entry that was
\* a line becomes a line once more; a call that follows a call returns
\* false and leaves the file as it is
C25_UpdateGitignoreIdempotent ==
    [][UpdateStep =>
          LET old == GitContent(gitignore)
              new == GitContent(gitignore')
          IN  /\ NonBlank(new) = NonBlank(old) \o
                     (IF Missing(old) = <<>> THEN <<>> ELSE <<SecretSageHeader>> \o Missing(old))
              /\ \A i \in 1..Len(entriesToAdd) :
                     CountLine(new, entriesToAdd[i]) =
                         IF CountLine(old, entriesToAdd[i]) = 0 THEN 1
                         ELSE CountLine(old, entriesToAdd[i])
              /\ gitOp'.result = (Missing(old) # <<>>)
              /\ ~gitOp'.result => gitignore' = gitignore
              /\ gitOp.op = "update" => (~gitOp'.result /\ gitignore' = gitignore)
      ]_vars

\* a call has returned false on a file that an earlier call added to, the
\* file holding lines of its own as well
C25_Witness ==
    /\ gitOp.op = "update"
    /\ ~gitOp.result
    /\ includes(gitignore.lines, SecretSageHeader)
    /\ includes(gitignore.lines, <<"node_modules">>)
    /\ includes(gitignore.lines, <<" ", ".env.*", " ">>)
    /\ CountLine(gitignore.lines, <<".env.*">>) = 1
    /\ CountLine(gitignore.lines, <<".env">>) = 1


\* ------------------------------------------------- two invocations at once
\* Two processes run one set or delete each on a vault that was
\* initialized, and perhaps written to, before either began.  Nothing in
\* set, delete, readVault or writeVault takes a lock or compares the file
\* with what was read, so the steps of the two calls interleave freely.

\* the process has not made its call yet
NotCalled(p) == pc[p] = "idle" /\ ret[p].op = "none"

\* writeVault that reads the file once more and applies the change of the
\* call to what it finds
WriteMerged(p) ==
    /\ pc[p] = "writeData"
    /\ LET l == loc[p]
           now == IF l.op = "set"
                  THEN setOutcome(vaultFile, recipientFile, l.name, l.value, clock).val
                  ELSE deleteOutcome(vaultFile, l.name).val.entries
       IN  vaultFile' = writeVault(now)
    /\ Return(p, Returned(loc[p], TRUE, "none"))
    /\ UNCHANGED <<identityFile, recipientFile, clock, keysMade, outsideIO>>

\* writeVault, line 236, as a call of two invocations reaches it
RaceWrite(p) == WriteAll(p)

\* the value written; the two calls differ in what they do and to which name
RaceValues == {Plain(<<"a">>)}

RaceNext ==
    \/ (\A p \in Procs : NotCalled(p)) /\ Initialize
    \/ \E n \in Names, v \in RaceValues :
          (\A p \in Procs : NotCalled(p)) /\ identityFile # NoKey /\ Set(n, v)
    \/ \E p \in Procs, n \in Names, v \in RaceValues : NotCalled(p) /\ IOSetRead(p, n, v)
    \/ \E p \in Procs : IOSetPrepare(p)
    \/ \E p \in Procs, n \in Names : NotCalled(p) /\ IODelete(p, n)
    \/ \E p \in Procs : WriteOpen(p)
    \/ \E p \in Procs : RaceWrite(p)

SpecRace == StoreInit /\ [][RaceNext]_vars

\* ------------------------------------------------- claims on two invocations
\* the names of the records of a vault file, in the order of the file
NamesIn(file) ==
    LET entries == readVault(file).entries
    IN  [i \in 1..Len(entries) |-> entries[i].name]

\* the names a set or delete leaves, from the names it found
NamesAfter(names, op, name) ==
    IF op = "set"
    THEN IF InList(names, name) THEN names ELSE Append(names, name)
    ELSE SelectSeq(names, LAMBDA n : n # name)

\* the call of p has returned without error and had something to do; its
\* effect is missing from the vault file
Effective(p) ==
    /\ ret[p].ok
    /\ \/ ret[p].op = "set"
       \/ ret[p].op = "delete" /\ ret[p].flag
EffectLost(p) ==
    \/ ret[p].op = "set" /\ ~HasName(vaultFile, ret[p].name)
    \/ ret[p].op = "delete" /\ HasName(vaultFile, ret[p].name)

\* C26: no step of a set or delete waits for the other invocation, and
\* the write that ends a call leaves the file with the record list the
\* call built from what it read at its start (the names it read, with its
\* own name added or removed), whatever has been written to the file
\* since; a lost update is the state C26_LostUpdate
C26_WriteFromOwnRead ==
    [][\A p \in Procs :
          (Returns(p) /\ lastOp'.ok /\ pc[p] = "writeData") =>
              /\ vaultFile' = loc[p].pending
              /\ NamesIn(vaultFile') = NamesAfter(NamesIn(loc[p].before), loc[p].op, loc[p].name)
      ]_vars

\* both invocations have completed a set or a delete without error, on
\* different names, and the vault file lacks the effect of one of them
C26_LostUpdate ==
    /\ \A p \in Procs : pc[p] = "idle" /\ Effective(p)
    /\ ret[1].name # ret[2].name
    /\ \E p \in Procs : EffectLost(p)
    /\ vaultFile.kind = "json"


\* ------------------------------------------------- claims on getAll
\* the record can be decrypted with the identity file
Decryptable(entry, idf) == idf # NoKey /\ decrypt(entry.encryptedValue, idf).ok

\* C23: getAll on a vault of which some record cannot be decrypted still
\* returns, with the value of every record that can be decrypted and
\* none for the others, and get of a record that cannot be decrypted
\* fails with the decryption error
C23_GetAllPastFailure ==
    [][(OpStep /\ vaultFile.kind = "json" /\ identityFile # NoKey) =>
          LET entries == vaultFile.entries
          IN  /\ lastOp'.op = "getAll" =>
                    /\ lastOp'.ok
                    /\ \A i \in 1..Len(entries) :
                           Decryptable(entries[i], identityFile) <=>
                               \E j \in 1..Len(lastOp'.list) :
                                   /\ lastOp'.list[j].name = entries[i].name
                                   /\ lastOp'.list[j].value =
                                          decrypt(entries[i].encryptedValue, identityFile).val
              /\ (/\ lastOp'.op = "get"
                  /\ HasName(vaultFile, lastOp'.name)
                  /\ ~Decryptable(EntryOf(vaultFile, lastOp'.name), identityFile)) =>
                    /\ ~lastOp'.ok
                    /\ lastOp'.err = "DecryptionFailed"
      ]_vars


\* ------------------------------------------------- claims on a damaged vault directory
\* the vault file as the call of p found it
AtStart(p) == IF pc[p] = "idle" THEN vaultFile ELSE loc[p].before

\* C28: a set or delete on a vault file that exists and cannot be parsed
\* as a record list fails, and leaves the content of the file as it was
C28_NoWriteOverUnparseable ==
    [][\A p \in Procs :
          (Returns(p) /\ lastOp'.op \in {"set", "delete"} /\ Corrupt(AtStart(p))) =>
              /\ ~lastOp'.ok
              /\ vaultFile' = AtStart(p)
      ]_vars

\* C29: whenever the directory holds both key files, the recipient file
\* holds the public key of the identity file and every record of the
\* vault file can be decrypted with that identity; this in every state,
\* those between the steps of initialize among them
C29_KeysAndRecordsMatch ==
    (identityFile # NoKey /\ recipientFile # NoKey) =>
        /\ recipientFile = identityToRecipient(identityFile)
        /\ \A i \in 1..Len(readVault(vaultFile).entries) :
               Decryptable(readVault(vaultFile).entries[i], identityFile)


\* ------------------------------------------------- core/service.ts: the service object
\* deepMerge of one config file over what is there already
MergeConfig(base, file) ==
    IF file = NoConfig THEN base
    ELSE [defaultLocation |-> file.defaultLocation,
          customPath |-> IF file.customPath # NoDir THEN file.customPath ELSE base.customPath]

\* loadConfig: default < global < local
loadConfig(cfg) == MergeConfig(MergeConfig(getDefaultConfig, cfg.global), cfg.local)

\* options?.local as init and initializeVault are handed it
LocalOpts == {"unset", "yes", "no"}

\* options?.local ?? config.vault.defaultLocation === 'local'
useLocal(local, cfg) ==
    IF local = "unset" THEN cfg.defaultLocation = "local" ELSE local = "yes"

\* new LocalSource({...}) on the three files of a directory
LocalSourceAt(dir) ==
    [id |-> "local", priority |-> 1, hasSet |-> TRUE, hasDelete |-> TRUE, dir |-> dir]

\* init that registers a source each time it is called
initAgain(svc, cfg, local) ==
    LET dir == IF useLocal(local, cfg) THEN "local" ELSE "global"
    IN  [initialized |-> TRUE, localSource |-> dir,
         registry |-> Append(svc.registry, LocalSourceAt(dir))]

\* init, lines 40-62
init(svc, cfg, local) ==
    IF svc.initialized THEN svc
    ELSE LET dir == IF useLocal(local, cfg) THEN "local" ELSE "global"
         IN  [initialized |-> TRUE, localSource |-> dir,
              registry |-> MapSet(svc.registry, LocalSourceAt(dir))]

\* ensureInitialized, lines 268-272
serviceEnsureInitialized(svc, cfg) ==
    IF ~svc.initialized THEN init(svc, cfg, "unset") ELSE svc

\* paths.ts: hasLocalVault, hasGlobalVault
hasVaultIn(dk, dir) == dk[dir].identityFile # NoKey
hasLocalVault(dk) == hasVaultIn(dk, "local")
hasGlobalVault(dk) == hasVaultIn(dk, "global")

\* getVaultPath, lines 109-119
serviceGetVaultPath(dk, cfg) ==
    IF hasLocalVault(dk) THEN "local"
    ELSE IF cfg.defaultLocation = "custom" /\ cfg.customPath # NoDir THEN cfg.customPath
    ELSE "global"

\* the sources of the registry that answer isAvailable() with true
\* (LocalSource.isAvailable, lines 42-50: the identity file exists)
serviceAvailable(svc, dk) ==
    getAvailableSources(svc.registry,
        [id \in {"local"} |->
            \E i \in 1..Len(svc.registry) : hasVaultIn(dk, svc.registry[i].dir)])

\* the directory a call through the registry reads: that of the
\* registered LocalSource
RegistryDir(svc) == IF svc.registry = <<>> THEN NoDir ELSE svc.registry[1].dir

\* the read that creates what it does not find
afterReadCreating(dk, dir, key) ==
    IF dir # NoDir /\ ~dk[dir].exists
    THEN [dk EXCEPT ![dir] = DirState(TRUE, key, identityToRecipient(key), writeVault(<<>>))]
    ELSE dk

\* what get, list, search and getAll leave on disk: fs.pathExists and
\* fs.readFile are their only file system calls
afterRead(dk, dir, key) == dk

\* initializeVault, lines 71-92: the directory written to
vaultDirOf(local, customPath) ==
    IF customPath # NoDir THEN customPath
    ELSE IF local = "yes" THEN "local" ELSE "global"

\* LocalSource.initialize in a directory: ensureDir, the two key files,
\* the empty vault file
initializeDir(dk, dir, key) ==
    [dk EXCEPT ![dir] = DirState(TRUE, key, identityToRecipient(key), writeVault(<<>>))]

\* the names and values handed to the service
ServiceNames == {"A"}
ServiceValues == {Plain(<<"a">>)}

\* service.init(options); options.local is kept in name
SvcInit(local) ==
    /\ service' = init(service, loadConfig(config), local)
    /\ svcOp' = SvcCall("init", local, NoDir, TRUE, "none", NullCred, <<>>)
    /\ UNCHANGED <<disk, config, storeVars, obsVars, procVars, regVars, envVars, gitVars>>

\* service.initializeVault(options), lines 67-94
SvcInitializeVault(local, customPath) ==
    LET dir == vaultDirOf(local, customPath)
    IN  /\ keysMade < MaxKeys
        /\ keysMade' = keysMade + 1
        /\ disk' = initializeDir(disk, dir, keysMade + 1)
        /\ service' = [service EXCEPT !.localSource = dir]
        /\ svcOp' = SvcCall("initializeVault", "", dir, TRUE, "none", NullCred, <<>>)
        /\ UNCHANGED <<config, identityFile, recipientFile, vaultFile, clock,
                       obsVars, procVars, regVars, envVars, gitVars>>

\* service.hasVault(), lines 99-104; the answer is kept in list
SvcHasVault ==
    /\ svcOp' = SvcCall("hasVault", "", NoDir, TRUE, "none", NullCred,
                        <<hasLocalVault(disk), hasGlobalVault(disk)>>)
    /\ UNCHANGED <<disk, config, service, storeVars, obsVars, procVars, regVars, envVars, gitVars>>

\* service.getVaultPath(), lines 109-119; the answer is kept in dir
SvcGetVaultPath ==
    /\ svcOp' = SvcCall("getVaultPath", "", serviceGetVaultPath(disk, loadConfig(config)),
                        TRUE, "none", NullCred, <<>>)
    /\ UNCHANGED <<disk, config, service, storeVars, obsVars, procVars, regVars, envVars, gitVars>>

\* service.add(name, value), lines 124-127: registry.set with no sourceId
SvcAdd(name, value) ==
    LET svc == serviceEnsureInitialized(service, loadConfig(config))
        t == firstWritable(serviceAvailable(svc, disk))
        dir == RegistryDir(svc)
        out == setOutcome(disk[dir].vaultFile, disk[dir].recipientFile, name, value, clock)
    IN  /\ service' = svc
        /\ disk' = IF t.ok /\ out.ok
                    THEN [disk EXCEPT ![dir].vaultFile = writeVault(out.val)]
                    ELSE disk
        /\ svcOp' = SvcCall("add", name, dir, t.ok /\ out.ok,
                            IF ~t.ok THEN t.err ELSE out.err, NullCred, <<>>)
        /\ UNCHANGED <<config, storeVars, obsVars, procVars, regVars, envVars, gitVars>>

\* service.get(name), lines 132-135: registry.get
SvcGet(name) ==
    LET svc == serviceEnsureInitialized(service, loadConfig(config))
        dir == RegistryDir(svc)
        out == IF serviceAvailable(svc, disk) = <<>> THEN Ok(NullCred)
               ELSE getOutcome(disk[dir].vaultFile, disk[dir].identityFile, name)
    IN  /\ service' = svc
        /\ disk' = afterRead(disk, dir, keysMade + 1)
        /\ svcOp' = SvcCall("get", name, dir, out.ok, out.err, out.val, <<>>)
        /\ UNCHANGED <<config, storeVars, obsVars, procVars, regVars, envVars, gitVars>>

\* service.list(), lines 140-143: registry.list
SvcList ==
    LET svc == serviceEnsureInitialized(service, loadConfig(config))
        dir == RegistryDir(svc)
        out == IF serviceAvailable(svc, disk) = <<>> THEN Ok(<<>>)
               ELSE listOutcome(disk[dir].vaultFile)
    IN  /\ service' = svc
        /\ disk' = afterRead(disk, dir, keysMade + 1)
        /\ svcOp' = SvcCall("list", "", dir, out.ok, out.err, NullCred, out.val)
        /\ UNCHANGED <<config, storeVars, obsVars, procVars, regVars, envVars, gitVars>>

\* service.delete(name), lines 148-151: registry.delete with no sourceId;
\* the boolean returned is kept in cred.found
SvcDelete(name) ==
    LET svc == serviceEnsureInitialized(service, loadConfig(config))
        dir == RegistryDir(svc)
        out == IF serviceAvailable(svc, disk) = <<>>
               THEN Ok([found |-> FALSE, entries |-> <<>>])
               ELSE deleteOutcome(disk[dir].vaultFile, name)
    IN  /\ service' = svc
        /\ disk' = IF out.ok /\ out.val.found
                    THEN [disk EXCEPT ![dir].vaultFile = writeVault(out.val.entries)]
                    ELSE disk
        /\ svcOp' = SvcCall("delete", name, dir, out.ok, out.err,
                            [NullCred EXCEPT !.found = out.val.found], <<>>)
        /\ UNCHANGED <<config, storeVars, obsVars, procVars, regVars, envVars, gitVars>>

\* service.getAll(), lines 225-231: this.localSource.getAll()
SvcGetAll ==
    LET svc == serviceEnsureInitialized(service, loadConfig(config))
        dir == svc.localSource
        out == getAllOutcome(disk[dir].vaultFile, disk[dir].identityFile)
    IN  /\ service' = svc
        /\ disk' = afterRead(disk, dir, keysMade + 1)
        /\ svcOp' = SvcCall("getAll", "", dir, out.ok, out.err, NullCred, out.val)
        /\ UNCHANGED <<config, storeVars, obsVars, procVars, regVars, envVars, gitVars>>

\* the next invocation of the tool: new CredentialService()
NewInvocation ==
    /\ service # NewService
    /\ service' = NewService
    /\ svcOp' = NoSvcCall
    /\ UNCHANGED <<disk, config, storeVars, obsVars, procVars, regVars, envVars, gitVars>>

\* ------------------------------------------------- commands/init.ts: initCommand
\* lines 25-40: how the command came to go on where a vault exists
initMode(dk, force, yes, proceed) ==
    IF ~(hasLocalVault(dk) \/ hasGlobalVault(dk)) THEN "notasked"
    ELSE IF force THEN "force"
    ELSE IF yes THEN "yes"
    ELSE IF proceed THEN "confirmed" ELSE "declined"

\* lines 43-65: 'global', 'local' or 'custom'
locationTypeOf(yes, local, path, choice) ==
    IF path # NoDir THEN "custom"
    ELSE IF ~yes /\ ~local THEN choice
    ELSE IF local THEN "local" ELSE "global"

\* initCommand, lines 21-117, by a new CredentialService: the check for a
\* vault, the place, initializeVault, saveConfig, updateGitignore; the
\* mode is kept in name, the directory written to in dir
InitCommand(force, yes, proceed, local, path, choice) ==
    LET mode == initMode(disk, force, yes, proceed)
        locationType == locationTypeOf(yes, local, path, choice)
        customPath == IF locationType = "custom" THEN "custom" ELSE NoDir
        dir == vaultDirOf(IF locationType = "local" THEN "yes" ELSE "no", customPath)
        saved == [defaultLocation |-> locationType, customPath |-> customPath]
        configDir == IF locationType = "local" THEN "local" ELSE "global"
        git == updateGitignore(gitignore)
    IN  IF mode = "declined"
        THEN /\ service' = NewService
             /\ svcOp' = SvcCall("initCommand", mode, NoDir, TRUE, "Aborted", NullCred, <<>>)
             /\ UNCHANGED <<disk, config, keysMade, gitVars>>
             /\ UNCHANGED <<identityFile, recipientFile, vaultFile, clock,
                            obsVars, procVars, regVars, envVars>>
        ELSE /\ keysMade < MaxKeys
             /\ keysMade' = keysMade + 1
             /\ disk' = [initializeDir(disk, dir, keysMade + 1) EXCEPT ![configDir].exists = TRUE]
             /\ config' = [config EXCEPT ![configDir] = saved]
             /\ service' = [NewService EXCEPT !.localSource = dir]
             /\ gitignore' = git.file
             /\ gitOp' = GitCall("update", git.result, 1 - gitOp.seq)
             /\ svcOp' = SvcCall("initCommand", mode, dir, TRUE, "none", NullCred, <<>>)
             /\ UNCHANGED <<identityFile, recipientFile, vaultFile, clock,
                            obsVars, procVars, regVars, envVars>>

\* the ways to run the command: the flags --force, --yes, --local and
\* --path, the answer to "Overwrite existing vault?" (asked without
\* --force and --yes only) and the place chosen at the prompt (shown
\* without --path, --yes and --local only)
InitRuns ==
    {o \in [force : BOOLEAN, yes : BOOLEAN, proceed : BOOLEAN, local : BOOLEAN,
            path : {NoDir, "custom"}, choice : {"global", "local", "custom"}] :
        /\ o.proceed => (~o.force /\ ~o.yes)
        /\ o.choice # "global" => (o.path = NoDir /\ ~o.yes /\ ~o.local)}

\* commands/config.ts, setConfigValue, lines 102-150, with the key
\* vault.defaultLocation: the merged config with the new value is saved to
\* the local config.yaml when there is a local vault, else to the global
ConfigSet(location) ==
    LET merged == [loadConfig(config) EXCEPT !.defaultLocation = location]
        configDir == IF hasLocalVault(disk) THEN "local" ELSE "global"
    IN  /\ config' = [config EXCEPT ![configDir] = merged]
        /\ disk' = [disk EXCEPT ![configDir].exists = TRUE]
        /\ service' = NewService
        /\ svcOp' = SvcCall("configSet", location, NoDir, TRUE, "none", NullCred, <<>>)
        /\ UNCHANGED <<storeVars, obsVars, procVars, regVars, envVars, gitVars>>

ServiceNext ==
    \/ \E local \in LocalOpts : SvcInit(local)
    \/ \E local \in {"yes", "no"}, customPath \in {NoDir, "custom"} :
          SvcInitializeVault(local, customPath)
    \/ SvcHasVault
    \/ SvcGetVaultPath
    \/ \E n \in ServiceNames, v \in ServiceValues : SvcAdd(n, v)
    \/ \E n \in ServiceNames : SvcGet(n)
    \/ SvcList
    \/ \E n \in ServiceNames : SvcDelete(n)
    \/ SvcGetAll
    \/ NewInvocation
    \/ \E location \in {"global", "local", "custom"} : ConfigSet(location)

\* the calls on the service object, with the config set from outside
SpecService == StoreInit /\ [][ServiceNext]_vars

CommandNext ==
    \/ ServiceNext
    \/ \E o \in InitRuns : InitCommand(o.force, o.yes, o.proceed, o.local, o.path, o.choice)

\* the same with the init command, which writes vault, config and .gitignore
SpecCommands == StoreInit /\ [][CommandNext]_vars


\* ------------------------------------------------- claims on the service object
ReadOps == {"get", "list", "getAll"}
LazyOps == {"add", "get", "list", "delete", "getAll"}
InitOps == {"initializeVault", "initCommand"}

\* C21: a get, list or getAll of the service leaves every vault directory
\* as it was (no directory, key file or vault file made or changed) and
\* makes no key pair, whether or not there is a vault in the directory it
\* reads; an identity file comes to be, or changes, only in a step of
\* initializeVault or of the init command
C21_ReadsCreateNothing ==
    [][/\ svcOp'.op \in ReadOps =>
             /\ disk' = disk
             /\ keysMade' = keysMade
             /\ config' = config
       /\ (\E d \in Dirs : disk'[d].identityFile # disk[d].identityFile) =>
             svcOp'.op \in InitOps
      ]_vars

\* a get has answered null from a directory that does not exist, while
\* no vault exists anywhere
C21_Witness ==
    /\ svcOp.op = "get"
    /\ svcOp.ok
    /\ svcOp.cred = NullCred
    /\ svcOp.dir \in Dirs
    /\ ~disk[svcOp.dir].exists
    /\ \A d \in Dirs : disk[d] = NoVaultDir
    /\ service.initialized

\* C22: the init command, run where the directory it is to write already
\* holds an identity file and without the overwrite having been asked for
\* (--force, --yes, or yes to the question), does not report success and
\* leaves that directory as it was
C22_InitKeepsExistingVault ==
    [][(svcOp'.op = "initCommand" /\ svcOp'.name \notin {"force", "yes", "confirmed"}) =>
          \A d \in Dirs :
              (disk[d].identityFile # NoKey /\ svcOp'.dir \in {d, NoDir}) =>
                  /\ svcOp'.err \in {"AlreadyInitialized", "Aborted"}
                  /\ disk'[d] = disk[d]
      ]_vars

\* the directory the claim has the service work in
ActiveDir(dk, cfg) ==
    IF dk["local"].identityFile # NoKey THEN "local"
    ELSE IF cfg.defaultLocation = "custom" /\ cfg.customPath # NoDir THEN cfg.customPath
    ELSE "global"

\* C24: add, get, list, delete and getAll, called on a service that no
\* one has told where to work, read and write the vault of the active
\* directory (local where a local vault exists, else the custom path
\* where one is configured, else global), which is the directory
\* getVaultPath() returns
C24_OneActiveDirectory ==
    [][/\ (svcOp'.op \in LazyOps /\ service = NewService) =>
             svcOp'.dir = ActiveDir(disk, loadConfig(config))
       /\ svcOp'.op = "getVaultPath" =>
             svcOp'.dir = ActiveDir(disk, loadConfig(config))
      ]_vars

\* C27: add, get, list, delete and getAll leave the service initialized
\* and never fail for want of it; an initialized service has exactly one
\* source in its registry, the local one, and an uninitialized one none;
\* init on an initialized service changes nothing; hasVault and
\* initializeVault run in either state and change neither the state nor
\* the registry; only a new service object is uninitialized again
C27_InitializedOnce ==
    [][/\ svcOp'.op \in LazyOps =>
             /\ service'.initialized
             /\ svcOp'.err # "Uninitialized"
             /\ service.initialized => service'.registry = service.registry
       /\ service'.initialized =>
             /\ Len(service'.registry) = 1
             /\ service'.registry[1].id = "local"
       /\ ~service'.initialized => service'.registry = <<>>
       /\ (svcOp'.op = "init" /\ service.initialized) =>
             /\ service' = service
             /\ disk' = disk
       /\ svcOp'.op \in {"hasVault", "initializeVault"} =>
             /\ svcOp'.ok
             /\ service'.initialized = service.initialized
             /\ service'.registry = service.registry
       /\ (service.initialized /\ ~service'.initialized) =>
             /\ service' \in {NewService, [NewService EXCEPT !.localSource = svcOp'.dir]}
             /\ svcOp'.op \in {"none", "initCommand", "configSet"}
      ]_vars

\* init({local: true}) has been called on a service whose registry holds
\* the source of the global directory and no other, and initializeVault
\* has run on it in between
C27_Witness ==
    /\ svcOp.op = "init"
    /\ svcOp.name = "yes"
    /\ service.initialized
    /\ Len(service.registry) = 1
    /\ service.registry[1].dir = "global"
    /\ service.localSource = "custom"


\* ------------------------------------------------- commands/revoke.ts: revokeCommand
\* Object.keys(env)
envKeysOf(env) == [i \in 1..Len(env) |-> env[i].key]

\* lines 39-47: the names service.list() gives where hasVault() reports a
\* vault, else none
vaultCredentialsOf(vf, idf) ==
    IF idf = NoKey THEN Ok(<<>>)
    ELSE LET out == listOutcome(vf)
         IN  IF out.ok THEN Ok([i \in 1..Len(out.val) |-> out.val[i].name])
             ELSE Err(out.err, <<>>)

\* lines 59-78: the names handed to service.revoke
selectedNamesOf(names, all, picked, envKeys, revokeableCreds) ==
    IF all THEN envKeys
    ELSE IF names # <<>> THEN SelectSeq(names, LAMBDA n : InList(envKeys, n))
    ELSE SelectSeq(revokeableCreds, LAMBDA n : n \in picked)

\* revokeCommand, lines 19-128: names and --all, --yes, the credentials
\* picked at the prompt and the answer to "Continue?"; the names handed
\* to service.revoke are kept in names, what it returned in result
RevokeCommand(names, all, yes, picked, proceed) ==
    LET env == ReadEnv(envFile)
        envKeys == envKeysOf(env)
        creds == vaultCredentialsOf(vaultFile, identityFile)
        revokeableCreds == SelectSeq(envKeys, LAMBDA k : InList(creds.val, k))
        selectedNames == selectedNamesOf(names, all, picked, envKeys, revokeableCreds)
        r == revokeLoop(selectedNames, env, <<>>)
        stops == \/ ~envFile.exists
                 \/ envKeys = <<>>
                 \/ ~creds.ok
                 \/ revokeableCreds = <<>> /\ ~all
                 \/ selectedNames = <<>>
                 \/ ~yes /\ ~proceed
    IN  /\ WithinText(r.env)
        /\ envFile' = IF stops THEN envFile ELSE EnvDoc(TRUE, stringifyEnv(r.env))
        /\ envOp' = EnvCall("revokeCommand", IF stops THEN <<>> ELSE selectedNames, "unset",
                            NoPath, creds.ok, creds.err, IF stops THEN <<>> ELSE r.revoked)
        /\ UNCHANGED <<storeVars, obsVars, procVars, regVars, backups, svcVars, gitVars>>

\* someone writes a variable of their own into .env
EnvAppend(key, text) ==
    /\ KeyIndex(ReadEnv(envFile), key) = 0
    /\ envFile' = EnvDoc(TRUE, Append(envFile.lines, [key |-> key, text |-> text]))
    /\ envOp' = NoEnvCall
    /\ UNCHANGED <<storeVars, obsVars, procVars, regVars, backups, svcVars, gitVars>>

\* the ways to run the command: names are looked at without --all only,
\* the prompt is shown without --all and names only, and "Continue?" is
\* asked without --yes only
RevokeRuns ==
    {o \in [names : NameLists \cup {<<>>}, all : BOOLEAN, yes : BOOLEAN,
            picked : SUBSET Names, proceed : BOOLEAN] :
        /\ o.all => o.names = <<>>
        /\ o.picked # {} => (~o.all /\ o.names = <<>>)
        /\ o.proceed => ~o.yes}

RevokeNext ==
    \/ ServiceInitializeVault
    \/ \E n \in Names, v \in Values : ServiceAdd(n, v)
    \/ \E names \in NameLists : ServiceGrant(names, "no")
    \/ \E n \in Names : EnvAppend(n, <<"x">>)
    \/ \E o \in RevokeRuns : RevokeCommand(o.names, o.all, o.yes, o.picked, o.proceed)

SpecRevoke == StoreInit /\ [][RevokeNext]_vars

\* C30: after the revoke command, run with names, with --all or with a
\* selection at the prompt, every key of .env that is not the name of a
\* credential of the vault is still in .env, with the value it had
C30_OnlyVaultKeysRemoved ==
    [][envOp'.op = "revokeCommand" =>
          \A n \in Names :
              (Entry(envFile, n).has /\ ~HasName(vaultFile, n)) =>
                  Entry(envFile', n) = Entry(envFile, n)
      ]_vars
====
